---- MODULE Spec2Model ----
(***************************************************************************)
(* SafeZone web: the alert persistence gateway (server/server.js) and the  *)
(* map view (src/P2.tsx) that reconciles broker messages into a device     *)
(* registry and forwards alerts to the gateway.                            *)
(***************************************************************************)
EXTENDS Integers, Sequences, FiniteSets, TLC

VARIABLES
  alerts,      \* the alerts table: a bag of rows (row -> number of copies)
  req,         \* the HTTP request the gateway handled last
  res,         \* the response it sent
  lastQuery,   \* the statement that handler passed to pool.query ("none" if none)
  prevSaved,   \* after a read: the row the request just before it inserted, if any
  nSaved,      \* rows inserted so far
  \* -- the map view (P2) --
  ids,         \* the ids of the User Device List the view was opened with
  rawMap,      \* the registry: device key -> raw device record
  alertedIds,  \* the ids marked as alerted
  connected,   \* the connected flag shown by the view
  currentId,   \* the selected device: {} (null) or {id}
  client,      \* the broker client: "none", "connecting", "connected", "offline", "ended"
  didConnect,  \* the session's didConnect flag
  timerArmed,  \* the fallback timer is pending
  mounted,     \* the view is mounted
  posts,       \* the save-alert requests issued, each with its outcome
  toasts,      \* the alert toasts emitted
  live,        \* the registry was last replaced by a broker snapshot
  cctvOpen,    \* the cctvOpen flag of the view
  sent,        \* the calls the handler that ran last made on the broker client
  staleClose,  \* an earlier session of this view, torn down at mount by the
               \* development build's StrictMode, has yet to emit its close event
  showLogs,    \* the history panel is open
  logs,        \* the device whose rows the panel holds: {} (no rows) or {id}
  logsLoading, \* the logsLoading flag
  logReqs,     \* the getRecentAlerts requests in flight: the device of each
  \* -- the list view (P1) --
  listItems,   \* the items state: the User Device List
  storage,     \* localStorage["@piling_items"]
  prompts,     \* the new-device toasts on screen
  selected,    \* the item the context menu was opened on: {} (null) or {id}
  menuOpen,    \* the menuOpen flag
  listClient,  \* the broker client of the list view
  listSent,    \* the calls the handler that ran last made on that client
  listMounted, \* the list view is mounted
  handled      \* the status update or alert the last step handled, if it handled one

gwVars == <<alerts, req, res, lastQuery, prevSaved, nSaved>>
logVars == <<showLogs, logs, logsLoading, logReqs>>
mapVars == <<ids, rawMap, alertedIds, connected, currentId, client, didConnect,
             timerArmed, mounted, posts, toasts, live, cctvOpen, sent, staleClose,
             logVars>>
listVars == <<listItems, storage, prompts, selected, menuOpen, listClient, listSent,
              listMounted, handled>>
vars == <<gwVars, mapVars, listVars>>

----------------------------------------------------------------------------
(* Bounds of the model *)

\* the most copies of an alert already in the table when the server starts
PriorRows == 10
\* successful INSERTs in one behaviour
MaxSaves == 2
\* getRecentAlerts requests of the history panel in flight at once
MaxLogReqs == 2

----------------------------------------------------------------------------
(* JavaScript values *)

\* a JS number: a finite integer, NaN or Infinity
Num(n) == [finite |-> TRUE, val |-> n]
NaN == [finite |-> FALSE, val |-> 0]
Infinity == [finite |-> FALSE, val |-> 1]

\* Number.isFinite(x)
IsFinite(x) == x.finite

\* Number(s) for the strings the model sends: StringToNumber trims white space,
\* reads "" as 0, a decimal literal as its value, "Infinity" as Infinity and
\* anything else as NaN. Coordinates are held in millionths of a degree.
NumberOfString(s) ==
  CASE s = "" -> Num(0)
    [] s = " " -> Num(0)
    [] s = "0" -> Num(0)
    [] s = "1" -> Num(1)
    [] s = "2" -> Num(2)
    [] s = "3" -> Num(3)
    [] s = "4" -> Num(4)
    [] s = "7" -> Num(7)
    [] s = "37.868770" -> Num(37868770)
    [] s = "37.869436" -> Num(37869436)
    [] s = "37.869562" -> Num(37869562)
    [] s = "37.869501" -> Num(37869501)
    [] s = "127.738360" -> Num(127738360)
    [] s = "127.742939" -> Num(127742939)
    [] s = "127.742999" -> Num(127742999)
    [] s = "127.743001" -> Num(127743001)
    [] s = "Infinity" -> Infinity
    [] OTHER -> NaN

\* arr[i] in JavaScript (0-based i): undefined beyond the end of the array
Elem(arr, i) == IF i + 1 <= Len(arr) THEN arr[i + 1] ELSE "undefined"

----------------------------------------------------------------------------
(* Persistence gateway: server/server.js *)

\* LIMIT of the recent-alerts query
RecentLimit == 10

Devices == {1, 2}
EventTimes == {1, 2}          \* event times, ordered as the store orders them
Objects == {"hog", "deer"}
Images == {"img"}

Row(d, t, o, i) ==
  [device_id |-> d, event_time |-> t, detected_object |-> o, base64_image |-> i]

Rows == {Row(d, t, o, i) : d \in Devices, t \in EventTimes, o \in Objects, i \in Images}

\* bags of rows: a function from the rows present to their positive counts
EmptyBag == [r \in {} |-> 0]
Copies(b, r) == IF r \in DOMAIN b THEN b[r] ELSE 0
BagAdd(b, r) ==
  [x \in DOMAIN b \cup {r} |-> IF x = r THEN Copies(b, r) + 1 ELSE b[x]]
BagRemove(b, r) ==
  [x \in {y \in DOMAIN b : y # r \/ b[y] > 1} |-> IF x = r THEN b[x] - 1 ELSE b[x]]
RECURSIVE BagSize(_)
BagSize(b) ==
  IF DOMAIN b = {} THEN 0
  ELSE LET r == CHOOSE x \in DOMAIN b : TRUE
       IN b[r] + BagSize([x \in DOMAIN b \ {r} |-> b[x]])
RECURSIVE BagOfSeq(_)
BagOfSeq(s) == IF s = <<>> THEN EmptyBag ELSE BagAdd(BagOfSeq(Tail(s)), Head(s))

\* the request bodies of POST /api/save-alert: recent_obj absent, or an array of
\* 0 to 4 elements
FullTuples == {<<t, o, i>> : t \in EventTimes, o \in Objects, i \in Images}
LongTuple == <<1, "hog", "img", "extra">>
SaveBodies ==
  {[id |-> 1]}
    \cup {[id |-> 1, recent_obj |-> SubSeq(LongTuple, 1, n)] : n \in {0, 1, 2, 4}}
    \cup {[id |-> d, recent_obj |-> a] : d \in Devices, a \in FullTuples}

\* the query strings of GET /api/alerts/recent: device_id missing or a string
DeviceIdStrings == {"", "1", "2", "abc", "Infinity"}
Queries == {<<>>} \cup {[device_id |-> s] : s \in DeviceIdStrings}

\* !recent_obj || recent_obj.length < 3
InvalidPayloadShort(body) ==
  \/ "recent_obj" \notin DOMAIN body
  \/ Len(body.recent_obj) < 2
InvalidPayload(body) ==
  \/ "recent_obj" \notin DOMAIN body
  \/ Len(body.recent_obj) < 3

\* the values of the INSERT
RowOfBody(body) ==
  Row(body.id, Elem(body.recent_obj, 0), Elem(body.recent_obj, 1),
      Elem(body.recent_obj, 2))

\* INSERT INTO alerts ... VALUES ($1, $2, $3, $4)
InsertAlertDedup(store, row) == IF row \in DOMAIN store THEN store ELSE BagAdd(store, row)
InsertAlertUpsert(store, row) ==
  BagAdd([x \in {y \in DOMAIN store : y.device_id # row.device_id} |-> store[x]], row)
InsertAlert(store, row) == BagAdd(store, row)

\* the rows of a bag with the latest event time
Latest(b) ==
  {r \in DOMAIN b : \A x \in DOMAIN b : x.event_time <= r.event_time}
Earliest(b) ==
  {r \in DOMAIN b : \A x \in DOMAIN b : x.event_time >= r.event_time}

\* ORDER BY event_time DESC LIMIT n: every sequence the store may return, rows
\* with equal event times in any order
RECURSIVE OrderedLimit(_, _)
OrderedLimit(b, n) ==
  IF n = 0 \/ DOMAIN b = {} THEN {<<>>}
  ELSE UNION {{<<r>> \o s : s \in OrderedLimit(BagRemove(b, r), n - 1)} : r \in Latest(b)}
RECURSIVE OrderedLimitAsc(_, _)
OrderedLimitAsc(b, n) ==
  IF n = 0 \/ DOMAIN b = {} THEN {<<>>}
  ELSE UNION {{<<r>> \o s : s \in OrderedLimitAsc(BagRemove(b, r), n - 1)} : r \in Earliest(b)}

\* WHERE device_id = $1
OfDevice(store, d) == [r \in {x \in DOMAIN store : x.device_id = d} |-> store[r]]

\* SELECT ... FROM alerts WHERE device_id = $1 ORDER BY event_time DESC LIMIT 10
RecentAlertsQueryAsc(store, d) == OrderedLimitAsc(OfDevice(store, d), RecentLimit)
RecentAlertsQueryShort(store, d) == OrderedLimit(OfDevice(store, d), RecentLimit - 1)
RecentAlertsQuery(store, d) == OrderedLimit(OfDevice(store, d), RecentLimit)

\* Number(req.query.device_id)
QueryDeviceId(query) ==
  IF "device_id" \in DOMAIN query THEN NumberOfString(query.device_id) ELSE NaN

NoRow == <<>>

\* the row the last request inserted, if it was a successful save
JustSaved ==
  IF req.op = "save" /\ res.status = 200 THEN RowOfBody(req.body) ELSE NoRow

\* app.post('/api/save-alert'): dbOk is whether pool.query resolves
SaveAlert(body, dbOk) ==
  /\ req' = [op |-> "save", body |-> body]
  /\ UNCHANGED <<mapVars, listVars>>
  /\ prevSaved' = NoRow
  /\ IF InvalidPayload(body)
     THEN /\ res' = [status |-> 400, rows |-> <<>>]
          /\ lastQuery' = "none"
          /\ UNCHANGED <<alerts, nSaved>>
     ELSE /\ lastQuery' = "INSERT"
          /\ IF dbOk
             THEN /\ nSaved < MaxSaves
                  /\ nSaved' = nSaved + 1
                  /\ alerts' = InsertAlert(alerts, RowOfBody(body))
                  /\ res' = [status |-> 200, rows |-> <<>>]
             ELSE /\ res' = [status |-> 500, rows |-> <<>>]
                  /\ UNCHANGED <<alerts, nSaved>>

\* app.get('/api/alerts/recent')
GetRecentAlerts(query, dbOk) ==
  LET deviceId == QueryDeviceId(query) IN
  /\ req' = [op |-> "get", query |-> query]
  /\ UNCHANGED <<mapVars, listVars>>
  /\ UNCHANGED <<alerts, nSaved>>
  /\ prevSaved' = JustSaved
  /\ IF ~IsFinite(deviceId)
     THEN /\ res' = [status |-> 400, rows |-> <<>>]
          /\ lastQuery' = "none"
     ELSE /\ lastQuery' = "SELECT"
          /\ IF dbOk
             THEN \E rows \in RecentAlertsQuery(alerts, deviceId.val) :
                    res' = [status |-> 200, rows |-> rows]
             ELSE res' = [status |-> 500, rows |-> <<>>]

\* the table as the server finds it: empty, or holding one alert of device 1 in
\* RecentLimit - 1 to PriorRows copies
PriorStores ==
  {EmptyBag}
    \cup {[r \in {k} |-> n] :
            k \in {x \in Rows : x.device_id = 1}, n \in (RecentLimit - 1)..PriorRows}

GwInit ==
  /\ alerts \in PriorStores
  /\ req = [op |-> "none"]
  /\ res = [status |-> 0, rows |-> <<>>]
  /\ lastQuery = "none"
  /\ prevSaved = NoRow
  /\ nSaved = 0


DoSaveAlert == \E body \in SaveBodies, dbOk \in BOOLEAN : SaveAlert(body, dbOk)
DoGetRecentAlerts == \E query \in Queries, dbOk \in BOOLEAN : GetRecentAlerts(query, dbOk)

GwNext == DoSaveAlert \/ DoGetRecentAlerts

\* the gateway at rest, for the behaviours of the map view alone
GwIdle ==
  /\ alerts = EmptyBag
  /\ req = [op |-> "none"]
  /\ res = [status |-> 0, rows |-> <<>>]
  /\ lastQuery = "none"
  /\ prevSaved = NoRow
  /\ nSaved = 0

----------------------------------------------------------------------------
(* Map view: src/P2.tsx *)

\* alert notifications handled in one behaviour
MaxAlerts == 1

\* a JSON number or string, as JavaScript holds it
N(n) == [num |-> n]
S(s) == [str |-> s]

\* Number(v)
NumberOf(v) == IF "num" \in DOMAIN v THEN Num(v.num) ELSE NumberOfString(v.str)

\* String(n), n a small non-negative integer
StringOfNumber(n) ==
  CASE n = 0 -> "0" [] n = 1 -> "1" [] n = 2 -> "2" [] n = 3 -> "3"
    [] n = 4 -> "4" [] n = 7 -> "7"

\* String(x) of a JSON string is that string
StringOf(x) == x

RawDev(battery, status, lat, lng) ==
  [battery |-> battery, temp |-> "24.6", humi |-> "70", status |-> status,
   lat |-> lat, lng |-> lng]

\* { ...cur, recent_obj: r }
WithRecent(cur, r) ==
  [k \in DOMAIN cur \cup {"recent_obj"} |-> IF k = "recent_obj" THEN r ELSE cur[k]]

FALLBACK_RAW ==
  ("1" :> WithRecent(RawDev("40", "GOOD", "37.868770", "127.738360"),
            <<"2025-05-01T23:21:52", "hog",
              "https://m.health.chosun.com/site/data/img_dir/2022/05/24/2022052402229_0.jpg">>))
  @@ ("2" :> WithRecent(RawDev("40", "BAD", "37.869436", "127.742939"),
            <<"2025-05-01T23:21:52", "hog",
              "https://thumb.mt.co.kr/06/2024/02/2024021621113371189_1.jpg/dims/optimize/">>))
  @@ ("3" :> WithRecent(RawDev("40", "OFF", "37.869562", "127.742999"),
            <<"2025-05-01T23:21:52", "hog",
              "https://newsimg.hankookilbo.com/2020/04/24/202004241244319174_1.jpg">>))
  @@ ("4" :> WithRecent(RawDev("20", "BAD", "37.869501", "127.743001"),
            <<"2025-05-01T23:21:52", "hog",
              "https://newsimg.hankookilbo.com/2020/04/24/202004241244319174_1.jpg">>))

EmptyMap == [k \in {} |-> 0]

\* mapStatus: the labels are the romanised Korean ones of the source
mapStatus(s) ==
  CASE s = "GOOD" -> [status |-> "jeongsang", dot |-> "green"]
    [] s = "BAD" -> [status |-> "gojang", dot |-> "red"]
    [] OTHER -> [status |-> "kkeojim", dot |-> "gray"]

\* Number(d.lat), Number(d.lng): a missing field is undefined, hence NaN
LatOf(d) == IF "lat" \in DOMAIN d THEN NumberOfString(d.lat) ELSE NaN
LngOf(d) == IF "lng" \in DOMAIN d THEN NumberOfString(d.lng) ELSE NaN

NoRecent == <<>>

\* the recent field of an item
ProjectRecent(d) ==
  IF "recent_obj" \in DOMAIN d /\ Len(d.recent_obj) >= 3
  THEN [time |-> StringOf(d.recent_obj[1]), target |-> StringOf(d.recent_obj[2]),
        image |-> StringOf(d.recent_obj[3])]
  ELSE NoRecent

\* the keys the items loop keeps: in the user list, with finite coordinates
KeptKeysAnyList(map, idSet) ==
  {key \in DOMAIN map : IsFinite(LatOf(map[key])) /\ IsFinite(LngOf(map[key]))}
KeptKeys(map, idSet) ==
  {key \in DOMAIN map :
     /\ IsFinite(NumberOfString(key)) /\ NumberOfString(key).val \in idSet
     /\ IsFinite(LatOf(map[key])) /\ IsFinite(LngOf(map[key]))}

ItemOf(key, d) ==
  [id |-> NumberOfString(key).val,
   status |-> mapStatus(d.status).status,
   statusDot |-> mapStatus(d.status).dot,
   battery |-> d.battery,
   lat |-> LatOf(d).val,
   lng |-> LngOf(d).val,
   recent |-> ProjectRecent(d)]

RECURSIVE SortById(_)
SortById(set) ==
  IF set = {} THEN <<>>
  ELSE LET m == CHOOSE x \in set : \A y \in set : x.id <= y.id
       IN <<m>> \o SortById(set \ {m})

\* the items memo: rawMap x idSet, sorted by id
Items(map, idSet) == SortById({ItemOf(key, map[key]) : key \in KeptKeys(map, idSet)})

items == Items(rawMap, ids)
ItemIds == {items[i].id : i \in DOMAIN items}

\* --- broker messages: a topic (its levels) and a payload ---

ResponseTopic == <<"Response", "device">>
NotifyTopic == <<"Notify">>

\* topic.startsWith("Response/")
IsResponseTopic(topic) == Len(topic) >= 2 /\ topic[1] = "Response"

\* topic.toLowerCase() === "notify"
LowerCase(level) == IF level = "Notify" THEN "notify" ELSE level
IsNotifyTopic(topic) == Len(topic) = 1 /\ LowerCase(topic[1]) = "notify"

\* a payload is unparsable text ("garbage"), a JSON scalar, a JSON array (its
\* body maps the indices to the elements) or a JSON object
Msg(topic, json, body) == [topic |-> topic, json |-> json, body |-> body]

DevA == RawDev("80", "GOOD", "37.868770", "127.738360")
DevB == RawDev("15", "BAD", "abc", "127.742939")

\* snapshots: the empty table, device 1 alone, and a table of device 1, of
\* device 2 without a usable latitude and of device 3 (never in the user list)
Snapshots ==
  {EmptyMap,
   "1" :> DevA,
   ("1" :> DevA) @@ ("2" :> DevB) @@ ("3" :> DevA)}

Recent1 == <<"2025-11-02T21:10:05", "deer", "data:image/jpeg;base64,AAAA">>

\* Notify payloads: alerts whose id is a number, a numeric, non-numeric or empty
\* string, given as idx, as both or not at all; alerts without a usable
\* recent_obj; a status update
NotifyBodies ==
  {[cmd |-> "alert", id |-> i, recent_obj |-> Recent1] :
      i \in {N(1), N(2), S("2"), S("abc"), S("")}}
  \cup {[cmd |-> "alert", idx |-> N(1), recent_obj |-> Recent1],
        [cmd |-> "alert", id |-> N(2), idx |-> N(1), recent_obj |-> Recent1],
        [cmd |-> "alert", recent_obj |-> Recent1],
        [cmd |-> "alert", id |-> N(1)],
        [cmd |-> "alert", id |-> N(1), recent_obj |-> SubSeq(Recent1, 1, 2)],
        [cmd |-> "alert", id |-> N(2), recent_obj |-> Recent1 \o <<"extra">>],
        [cmd |-> "status_update", id |-> N(1), status |-> "BAD", battery |-> "10"]}

Messages ==
  {Msg(ResponseTopic, "object", s) : s \in Snapshots}
  \cup {Msg(NotifyTopic, "object", b) : b \in NotifyBodies}
  \cup {Msg(t, j, EmptyMap) : t \in {ResponseTopic, NotifyTopic},
                              j \in {"garbage", "scalar", "array"}}

\* Number(msg.id ?? msg.idx)
NotifyId(msg) ==
  IF "id" \in DOMAIN msg THEN NumberOf(msg.id)
  ELSE IF "idx" \in DOMAIN msg THEN NumberOf(msg.idx)
  ELSE NaN

\* Array.isArray(msg.recent_obj) && msg.recent_obj.length >= 3
HasRecentArr(msg) == "recent_obj" \in DOMAIN msg /\ Len(msg.recent_obj) >= 3
RecentArr(msg) ==
  <<StringOf(msg.recent_obj[1]), StringOf(msg.recent_obj[2]), StringOf(msg.recent_obj[3])>>

\* the message passes every early return of the alert branch
PassesAlertChecks(m) ==
  /\ m.json = "object"
  /\ IsNotifyTopic(m.topic)
  /\ "cmd" \in DOMAIN m.body /\ m.body.cmd = "alert"
  /\ IsFinite(NotifyId(m.body))
  /\ HasRecentArr(m.body)

\* the body of the POST to /api/save-alert
AlertPayload(numId, recentArr) == [cmd |-> "alert", id |-> numId, recent_obj |-> recentArr]

\* setRawMap in the alert branch: replace recent_obj of the device, if known
RegistryAfterAlertGoodOnly(prev, numId, recentArr) ==
  LET key == StringOfNumber(numId) IN
  IF key \notin DOMAIN prev \/ prev[key].status # "GOOD" THEN prev
  ELSE [prev EXCEPT ![key] = WithRecent(prev[key], recentArr)]
RegistryAfterAlertMarksBad(prev, numId, recentArr) ==
  LET key == StringOfNumber(numId) IN
  IF key \notin DOMAIN prev THEN prev
  ELSE [prev EXCEPT ![key] = WithRecent([prev[key] EXCEPT !.status = "BAD"], recentArr)]
RegistryAfterAlert(prev, numId, recentArr) ==
  LET key == StringOfNumber(numId) IN
  IF key \notin DOMAIN prev THEN prev
  ELSE [prev EXCEPT ![key] = WithRecent(prev[key], recentArr)]

\* setAlertedIds in the alert branch
AlertedAfterAlertKnownOnly(prev, numId) ==
  IF StringOfNumber(numId) \in DOMAIN rawMap THEN prev \cup {numId} ELSE prev
AlertedAfterAlert(prev, numId) == prev \cup {numId}

\* the toast of an alert names the detected object
ToastOf(recentArr) == [target |-> recentArr[2]]

\* the value the fallback timer sets
TimerSeedListed ==
  [k \in {x \in DOMAIN FALLBACK_RAW : NumberOfString(x).val \in ids} |-> FALLBACK_RAW[k]]
TimerSeed == FALLBACK_RAW

\* rawMap as the session's handlers captured it when the effect ran
ClosureRawMap == EmptyMap

\* parsed && typeof parsed === "object": true of objects and of arrays
TypeofObject(json) == json \in {"object", "array"}

\* setRawMap(parsed) of the Response branch: the parsed payload replaces the
\* registry when its type is "object"
SnapshotMerge(prev, json, parsed) ==
  IF TypeofObject(json)
  THEN [k \in DOMAIN prev \cup DOMAIN parsed |->
          IF k \in DOMAIN parsed THEN parsed[k] ELSE prev[k]]
  ELSE prev
SnapshotReplace(prev, json, parsed) == IF TypeofObject(json) THEN parsed ELSE prev

\* the registry after client.on("message") has handled m
RawMapAfterMessage(prev, m) ==
  IF m.json = "garbage" THEN prev
  ELSE IF IsResponseTopic(m.topic) THEN SnapshotReplace(prev, m.json, m.body)
  ELSE IF PassesAlertChecks(m)
  THEN RegistryAfterAlert(prev, NotifyId(m.body).val, RecentArr(m.body))
  ELSE prev

\* the condition under which the close handler calls setRawMap
CloseSeedsWhenEmpty(didConn, captured) == DOMAIN captured = {}
CloseSeeds(didConn, captured) == ~didConn /\ DOMAIN captured = {}

\* setRawMap((prev) => (Object.keys(prev).length ? prev : FALLBACK_RAW))
AlwaysFallback(prev) == FALLBACK_RAW
KeepOrFallback(prev) == IF DOMAIN prev # {} THEN prev ELSE FALLBACK_RAW

\* the calls of the connect handler: subscribe, then publish GET/device
SubscribeCall(topics) == [call |-> "subscribe", topics |-> topics]
GetDeviceCall == [call |-> "publish", topic |-> <<"GET", "device">>]
ConnectCallsNoGet == <<SubscribeCall({"Response/#", "Notify"})>>
ConnectCalls == <<SubscribeCall({"Response/#", "Notify"}), GetDeviceCall>>

\* publishPTZ: the command word and the published message
CommendDir(dir, state) == dir
Commend(dir, state) == IF state = "stop" THEN "stop" ELSE dir
ControlCall(id, commend) ==
  [call |-> "publish", topic |-> <<"CONTROL", "device", StringOfNumber(id)>>,
   commend |-> commend, id |-> id]

\* clientRef.current is set from the start of the session to its cleanup
HasClientRef == client \in {"connecting", "connected", "offline"}

\* client.on("connect")
OnConnect ==
  /\ mounted /\ client \in {"connecting", "offline"}
  /\ client' = "connected"
  /\ didConnect' = TRUE
  /\ timerArmed' = FALSE
  /\ connected' = TRUE
  /\ sent' = ConnectCalls
  /\ UNCHANGED <<ids, rawMap, alertedIds, currentId, mounted, posts, toasts, live,
                 cctvOpen, staleClose, logVars, gwVars,
                 listVars>>

\* the fallbackTimer callback
OnTimer ==
  /\ mounted /\ timerArmed
  /\ timerArmed' = FALSE
  /\ IF ~didConnect
     THEN connected' = FALSE /\ rawMap' = TimerSeed /\ live' = FALSE
     ELSE UNCHANGED <<connected, rawMap, live>>
  /\ sent' = <<>>
  /\ UNCHANGED <<ids, alertedIds, currentId, client, didConnect, mounted, posts, toasts,
                 cctvOpen, staleClose, logVars, gwVars,
                 listVars>>

\* client.on("close"): the transport closed, or a connection attempt failed
OnClose ==
  /\ mounted /\ client \in {"connecting", "connected", "offline"}
  /\ client' = "offline"
  /\ IF CloseSeeds(didConnect, ClosureRawMap)
     THEN rawMap' = KeepOrFallback(rawMap) /\ live' = (live /\ DOMAIN rawMap # {})
     ELSE UNCHANGED <<rawMap, live>>
  /\ connected' = FALSE
  /\ sent' = <<>>
  /\ UNCHANGED <<ids, alertedIds, currentId, didConnect, timerArmed, mounted, posts, toasts,
                 cctvOpen, staleClose, logVars, gwVars,
                 listVars>>

\* client.on("close") of the session that StrictMode tore down at mount: that
\* session never connected and captured the empty registry; the view it
\* updates is still mounted, unless it was unmounted since (updates dropped)
OnStaleClose ==
  /\ staleClose
  /\ staleClose' = FALSE
  /\ IF mounted
     THEN /\ IF CloseSeeds(FALSE, ClosureRawMap)
             THEN rawMap' = KeepOrFallback(rawMap) /\ live' = (live /\ DOMAIN rawMap # {})
             ELSE UNCHANGED <<rawMap, live>>
          /\ connected' = FALSE
          /\ sent' = <<>>
     ELSE UNCHANGED <<rawMap, live, connected, sent>>
  /\ UNCHANGED <<ids, alertedIds, currentId, client, didConnect, timerArmed, mounted,
                 posts, toasts, cctvOpen, logVars, gwVars,
                 listVars>>

\* client.on("close") after the cleanup ended the client: the view is
\* unmounted and its state updates are dropped
OnCloseAfterEnd ==
  /\ ~mounted /\ client = "ended"
  /\ client' = "closed"
  /\ UNCHANGED <<ids, rawMap, alertedIds, connected, currentId, didConnect, timerArmed,
                 mounted, posts, toasts, live, cctvOpen, sent, staleClose, logVars, gwVars,
                 listVars>>

\* client.on("error"): logs
OnError ==
  /\ mounted /\ client \in {"connecting", "connected", "offline"}
  /\ sent' = <<>>
  /\ UNCHANGED <<ids, rawMap, alertedIds, connected, currentId, client, didConnect,
                 timerArmed, mounted, posts, toasts, live, cctvOpen, staleClose, logVars, gwVars,
                 listVars>>

\* client.on("message")
OnMessage(m) ==
  /\ mounted /\ client = "connected"
  /\ sent' = <<>>
  /\ UNCHANGED <<ids, connected, currentId, client, didConnect, timerArmed, mounted,
                 cctvOpen, staleClose, logVars, gwVars,
                 listVars>>
  /\ rawMap' = RawMapAfterMessage(rawMap, m)
  /\ live' = (IF TypeofObject(m.json) /\ IsResponseTopic(m.topic) THEN TRUE ELSE live)
  /\ IF m.json # "garbage" /\ ~IsResponseTopic(m.topic) /\ PassesAlertChecks(m)
     THEN LET numId == NotifyId(m.body).val
              recentArr == RecentArr(m.body)
          IN /\ Len(posts) < MaxAlerts
             /\ posts' = Append(posts, [body |-> AlertPayload(numId, recentArr),
                                        outcome |-> "pending"])
             /\ alertedIds' = AlertedAfterAlert(alertedIds, numId)
             /\ toasts' = Append(toasts, ToastOf(recentArr))
     ELSE UNCHANGED <<alertedIds, posts, toasts>>

\* the requests after the .then / .catch of request i has run: it logs the
\* outcome and issues nothing
PostsAfterSettleRetry(prev, i, outcome) ==
  IF outcome = "ok" THEN [prev EXCEPT ![i].outcome = outcome]
  ELSE Append([prev EXCEPT ![i].outcome = outcome],
              [body |-> prev[i].body, outcome |-> "pending"])
PostsAfterSettle(prev, i, outcome) == [prev EXCEPT ![i].outcome = outcome]

\* the fetch of a save-alert request settles: the handlers only log
FetchSettled(i, outcome) ==
  /\ i \in DOMAIN posts /\ posts[i].outcome = "pending"
  /\ posts' = PostsAfterSettle(posts, i, outcome)
  /\ UNCHANGED <<ids, rawMap, alertedIds, connected, currentId, client, didConnect,
                 timerArmed, mounted, toasts, live, cctvOpen, sent, staleClose, logVars, gwVars,
                 listVars>>

\* the logs effect, run when showLogs or currentId has changed: it returns
\* early unless the panel is open and a device is selected
LogsEffectRuns(show, cur) == show /\ cur # {}

\* setLogsLoading(true); setLogs([]); fetch(.../api/alerts/recent?device_id=...)
StartLogsFetch(cur) ==
  /\ logsLoading' = TRUE
  /\ logs' = {}
  /\ logReqs' = Append(logReqs, CHOOSE d \in cur : TRUE)

\* setAlertedIds of the click handler: next.delete(it.id)
AlertedAfterClickKept(prev, id) == prev
AlertedAfterClick(prev, id) == prev \ {id}

\* the click handler of a marker
MarkerClick(id) ==
  /\ mounted /\ id \in ItemIds
  /\ currentId' = {id}
  /\ alertedIds' = AlertedAfterClick(alertedIds, id)
  /\ sent' = <<>>
  /\ IF LogsEffectRuns(showLogs, {id}) /\ currentId # {id}
     THEN Len(logReqs) < MaxLogReqs /\ StartLogsFetch({id}) /\ UNCHANGED showLogs
     ELSE UNCHANGED logVars
  /\ UNCHANGED <<ids, rawMap, connected, client, didConnect, timerArmed, mounted,
                 posts, toasts, live, cctvOpen, staleClose, gwVars, listVars>>

\* setCurrentId(null): a click on the map, or the close button of the panel
Deselect ==
  /\ mounted /\ currentId # {}
  /\ currentId' = {}
  /\ sent' = <<>>
  /\ UNCHANGED <<ids, rawMap, alertedIds, connected, client, didConnect, timerArmed,
                 mounted, posts, toasts, live, cctvOpen, staleClose, logVars, gwVars,
                 listVars>>

\* the CCTV button of the panel, shown while the selected device is an item
OpenCctv ==
  /\ mounted /\ currentId # {} /\ currentId \subseteq ItemIds
  /\ ~cctvOpen
  /\ cctvOpen' = TRUE
  /\ sent' = <<>>
  /\ UNCHANGED <<ids, rawMap, alertedIds, connected, currentId, client, didConnect,
                 timerArmed, mounted, posts, toasts, live, staleClose, logVars, gwVars,
                 listVars>>

\* the close button of the CCTV overlay
CloseCctv ==
  /\ mounted /\ cctvOpen /\ currentId # {} /\ currentId # {0}
  /\ cctvOpen' = FALSE
  /\ sent' = <<>>
  /\ UNCHANGED <<ids, rawMap, alertedIds, connected, currentId, client, didConnect,
                 timerArmed, mounted, posts, toasts, live, staleClose, logVars, gwVars,
                 listVars>>

\* a pan gesture on the CCTV overlay, rendered while cctvOpen && currentId:
\* publishPTZ(dir, state)
PublishPTZ(dir, state) ==
  /\ mounted /\ cctvOpen /\ currentId # {} /\ currentId # {0}
  /\ sent' = (IF HasClientRef
              THEN <<ControlCall(CHOOSE id \in currentId : TRUE, Commend(dir, state))>>
              ELSE <<>>)
  /\ UNCHANGED <<ids, rawMap, alertedIds, connected, currentId, client, didConnect,
                 timerArmed, mounted, posts, toasts, live, cctvOpen, staleClose, logVars, gwVars,
                 listVars>>

\* client.end(true) of the cleanup, when the effect had opened a client
ClientAfterCleanupKept(c) == c
ClientAfterCleanup(c) == IF c = "none" THEN "none" ELSE "ended"

\* the cleanup of the MQTT effect, run when the view unmounts; the state of the
\* component is discarded with it, the requests in flight and the toasts are not
MapCleanup ==
  /\ mounted' = FALSE
  /\ timerArmed' = FALSE
  /\ client' = ClientAfterCleanup(client)
  /\ sent' = <<>>
  /\ rawMap' = EmptyMap /\ live' = FALSE
  /\ alertedIds' = {} /\ currentId' = {}
  /\ connected' = FALSE /\ cctvOpen' = FALSE
  /\ showLogs' = FALSE /\ logs' = {} /\ logsLoading' = FALSE
  /\ UNCHANGED <<ids, didConnect, posts, toasts, staleClose, logReqs>>

Unmount == mounted /\ MapCleanup /\ UNCHANGED <<gwVars, listVars>>

\* the "recent detections" row of the panel of the selected item:
\* setShowLogs(true), after which the logs effect runs
OpenLogs ==
  /\ mounted /\ ~showLogs
  /\ currentId # {} /\ currentId \subseteq ItemIds
  /\ showLogs' = TRUE
  /\ IF LogsEffectRuns(TRUE, currentId)
     THEN Len(logReqs) < MaxLogReqs /\ StartLogsFetch(currentId)
     ELSE UNCHANGED <<logs, logsLoading, logReqs>>
  /\ sent' = <<>>
  /\ UNCHANGED <<ids, rawMap, alertedIds, connected, currentId, client, didConnect,
                 timerArmed, mounted, posts, toasts, live, cctvOpen, staleClose, gwVars,
                 listVars>>

\* the close button of the history panel: setShowLogs(false); the effect runs
\* and returns early
CloseLogs ==
  /\ mounted /\ showLogs
  /\ showLogs' = FALSE
  /\ sent' = <<>>
  /\ UNCHANGED <<ids, rawMap, alertedIds, connected, currentId, client, didConnect,
                 timerArmed, mounted, posts, toasts, live, cctvOpen, staleClose,
                 logs, logsLoading, logReqs, gwVars, listVars>>

\* the rows set when request i settles: the .then chain sets the rows of the
\* device asked for, the .catch sets none
LogsAfterSettle(asked, outcome) == IF outcome = "ok" THEN {asked} ELSE {}

\* request i of the history panel settles, in any order: setLogs(...), then
\* setLogsLoading(false); a view unmounted since drops both
LogsSettled(i, outcome) ==
  /\ i \in DOMAIN logReqs
  /\ logReqs' = SubSeq(logReqs, 1, i - 1) \o SubSeq(logReqs, i + 1, Len(logReqs))
  /\ IF mounted
     THEN logs' = LogsAfterSettle(logReqs[i], outcome) /\ logsLoading' = FALSE
     ELSE UNCHANGED <<logs, logsLoading>>
  /\ UNCHANGED <<ids, rawMap, alertedIds, connected, currentId, client, didConnect,
                 timerArmed, mounted, posts, toasts, live, cctvOpen, sent, staleClose,
                 showLogs, gwVars, listVars>>

DoLogsSettled ==
  \E i \in DOMAIN logReqs, outcome \in {"ok", "failed"} : LogsSettled(i, outcome)

\* the user lists the view may be opened with
IdSets == {{}, {1}, {1, 2}}

\* if (!ids || ids.length === 0) { setRawMap({}); return; }: the effect opens
\* a client and arms the timer only for a non-empty user list
SessionOpensAlways(idSet) == TRUE
SessionOpens(idSet) == idSet # {}

\* the view mounted and its MQTT effect run (twice, with a cleanup in between,
\* in a development build: main.jsx renders under React.StrictMode)
MapInit ==
  /\ ids \in IdSets
  /\ rawMap = EmptyMap
  /\ alertedIds = {}
  /\ connected = FALSE
  /\ currentId = {}
  /\ client = (IF SessionOpens(ids) THEN "connecting" ELSE "none")
  /\ didConnect = FALSE
  /\ timerArmed = SessionOpens(ids)
  /\ mounted = TRUE
  /\ posts = <<>>
  /\ toasts = <<>>
  /\ live = FALSE
  /\ cctvOpen = FALSE
  /\ sent = <<>>
  /\ staleClose \in (IF SessionOpens(ids) THEN BOOLEAN ELSE {FALSE})
  /\ showLogs = FALSE /\ logs = {} /\ logsLoading = FALSE /\ logReqs = <<>>

\* no view, for the behaviours of the gateway alone
MapIdle ==
  /\ ids = {}
  /\ rawMap = EmptyMap
  /\ alertedIds = {}
  /\ connected = FALSE
  /\ currentId = {}
  /\ client = "none"
  /\ didConnect = FALSE
  /\ timerArmed = FALSE
  /\ mounted = FALSE
  /\ posts = <<>>
  /\ toasts = <<>>
  /\ live = FALSE
  /\ cctvOpen = FALSE
  /\ sent = <<>>
  /\ staleClose = FALSE
  /\ showLogs = FALSE /\ logs = {} /\ logsLoading = FALSE /\ logReqs = <<>>

DoMessage == \E m \in Messages : OnMessage(m)
DoFetchSettled ==
  \E i \in 1..MaxAlerts, outcome \in {"ok", "http_error", "network_error"} :
    FetchSettled(i, outcome)
DoMarkerClick == \E id \in ItemIds : MarkerClick(id)
DoPublishPTZ == \E dir \in {"left", "right"}, state \in {"start", "stop"} : PublishPTZ(dir, state)

MapNext ==
  \/ OnConnect
  \/ OnTimer
  \/ OnClose
  \/ OnStaleClose
  \/ OnCloseAfterEnd
  \/ OnError
  \/ DoMessage
  \/ DoFetchSettled
  \/ DoMarkerClick
  \/ Deselect
  \/ Unmount

\* the steps of the CCTV overlay; they read and write cctvOpen and sent only
CctvNext ==
  \/ OpenCctv
  \/ CloseCctv
  \/ DoPublishPTZ

----------------------------------------------------------------------------
(* List view: src/P1.tsx *)

\* entries of the User Device List and new-device toasts on screen, together
MaxItems == 2

\* Number.isNaN(x)
IsNaN(x) == x = NaN

\* mapStatus of the list view
mapStatusP1(s) ==
  CASE s = "GOOD" -> [status |-> "jeongsang", dot |-> "green"]
    [] s = "BAD" -> [status |-> "gojang", dot |-> "red"]
    [] OTHER -> [status |-> "kkeojim", dot |-> "gray"]

\* an entry of the list; name holds the number n of the label "n beon malttuk"
Item(id, name, st, battery) ==
  [id |-> id, name |-> name, status |-> st.status, statusDot |-> st.dot,
   battery |-> battery]

\* JSON.stringify writes a number that is not finite as null
JsonNull == [null |-> TRUE]
JsonOfNumber(x) == IF IsFinite(x) THEN x ELSE JsonNull
JsonOfItem(it) == [it EXCEPT !.id = JsonOfNumber(it.id)]
Stringify(its) == [i \in DOMAIN its |-> JsonOfItem(its[i])]

\* localStorage: the key is absent, or holds a JSON document
NoStorage == [present |-> FALSE, value |-> <<>>]
saveItems(its) == [present |-> TRUE, value |-> Stringify(its)]

\* it && typeof it.id === "number" && !Number.isNaN(it.id)
HasNumberId(it) == "finite" \in DOMAIN it.id /\ ~IsNaN(it.id)

loadItems(store) == IF ~store.present THEN <<>> ELSE SelectSeq(store.value, HasNumberId)

\* safeItems
SafeItems(its) == SelectSeq(its, HasNumberId)

\* loadIdsFromStorage of the map view (src/P2.tsx): the finite numeric ids
HasFiniteId(it) == "finite" \in DOMAIN it.id /\ IsFinite(it.id)
loadIdsFromStorage(store) ==
  IF ~store.present THEN <<>>
  ELSE LET kept == SelectSeq(store.value, HasFiniteId)
       IN [i \in DOMAIN kept |-> kept[i].id]

\* the ids of a list, in order
IdsOf(its) == [i \in DOMAIN its |-> its[i].id]
Range(seq) == {seq[i] : i \in DOMAIN seq}

\* arrayMove(array, from, to), positions counted from 1
RemoveAt(seq, i) == SubSeq(seq, 1, i - 1) \o SubSeq(seq, i + 1, Len(seq))
InsertAt(seq, i, x) == SubSeq(seq, 1, i - 1) \o <<x>> \o SubSeq(seq, i, Len(seq))
arrayMove(seq, from, to) == InsertAt(RemoveAt(seq, from), to, seq[from])

\* findIndex((i) => i.id === id): the first position, 0 for -1
FindIndex(its, id) ==
  IF \E i \in DOMAIN its : its[i].id = id
  THEN CHOOSE i \in DOMAIN its : its[i].id = id /\ \A k \in 1..(i - 1) : its[k].id # id
  ELSE 0

\* Notify payloads of the list view: new devices named by idx or id, by a
\* numeric string, by "Infinity", by a non-numeric string and by both fields;
\* status updates for ids 1 and 7, one of them without a status; an alert
ListNotifyBodies ==
  {[cmd |-> "new_device", idx |-> N(1), status |-> "GOOD", battery |-> "80"],
   [cmd |-> "new_device", id |-> S("2"), status |-> "GOOD", battery |-> "80"],
   [cmd |-> "new_device", idx |-> S("Infinity"), status |-> "GOOD", battery |-> "80"],
   [cmd |-> "new_device", idx |-> S("abc"), status |-> "GOOD", battery |-> "80"],
   [cmd |-> "new_device", idx |-> N(1), id |-> N(2), status |-> "GOOD", battery |-> "80"],
   [cmd |-> "status_update", idx |-> N(1), status |-> "BAD", battery |-> "10"],
   [cmd |-> "status_update", id |-> N(1)],
   [cmd |-> "status_update", idx |-> N(7), status |-> "BAD"],
   [cmd |-> "alert", idx |-> N(1), status |-> "GOOD"]}

ListMessages ==
  {Msg(NotifyTopic, "object", b) : b \in ListNotifyBodies}
  \cup {Msg(<<"Response">>, "object", b) : b \in {[cmd |-> "status_update", idx |-> N(1), status |-> "BAD"]}}
  \cup {Msg(NotifyTopic, j, EmptyMap) : j \in {"garbage", "scalar", "array"}}

\* Number(m.idx ?? m.id)
ListNotifyId(msg) ==
  IF "idx" \in DOMAIN msg THEN NumberOf(msg.idx)
  ELSE IF "id" \in DOMAIN msg THEN NumberOf(msg.id)
  ELSE NaN

\* m.status, m.battery, m.cmd of a parsed payload
StatusField(msg) == IF "status" \in DOMAIN msg THEN msg.status ELSE "undefined"
BatteryField(msg) == IF "battery" \in DOMAIN msg THEN msg.battery ELSE ""
CmdField(msg) == IF "cmd" \in DOMAIN msg THEN msg.cmd ELSE "undefined"

\* the message gets past the topic test, JSON.parse and the id test
ListAccepts(m) ==
  /\ m.topic = NotifyTopic
  /\ m.json = "object"
  /\ ~IsNaN(ListNotifyId(m.body))

\* prev.map((it) => (it.id === idx ? { ...it, status, statusDot: dot } : it))
ItemsAfterStatusUpsert(prev, idx, st) ==
  IF \E i \in DOMAIN prev : prev[i].id = idx
  THEN [i \in DOMAIN prev |->
          IF prev[i].id = idx
          THEN [prev[i] EXCEPT !.status = st.status, !.statusDot = st.dot]
          ELSE prev[i]]
  ELSE Append(prev, Item(idx, Len(prev) + 1, st, ""))
ItemsAfterStatusUpdate(prev, idx, st) ==
  [i \in DOMAIN prev |->
     IF prev[i].id = idx
     THEN [prev[i] EXCEPT !.status = st.status, !.statusDot = st.dot]
     ELSE prev[i]]

\* the list after a handler that also removed the device an alert names
ItemsAfterMessageDropsAlerted(prev, m) ==
  IF ListAccepts(m) /\ CmdField(m.body) = "status_update"
  THEN ItemsAfterStatusUpdate(prev, ListNotifyId(m.body), mapStatusP1(StatusField(m.body)))
  ELSE IF ListAccepts(m) /\ CmdField(m.body) = "alert"
  THEN SelectSeq(prev, LAMBDA it : it.id # ListNotifyId(m.body))
  ELSE prev

\* the list after client.on("message") has handled m
ItemsAfterMessage(prev, m) ==
  IF ListAccepts(m) /\ CmdField(m.body) = "status_update"
  THEN ItemsAfterStatusUpdate(prev, ListNotifyId(m.body), mapStatusP1(StatusField(m.body)))
  ELSE prev

\* the toast of a new_device message: what its accept button closes over
PromptOf(msg) ==
  [id |-> ListNotifyId(msg), st |-> mapStatusP1(StatusField(msg)),
   battery |-> BatteryField(msg)]

\* the calls of the connect handler of the list view
ListConnectCalls == <<SubscribeCall({"Notify", "GET_Response", "Response"})>>

NothingHandled == [cmd |-> "none"]

\* client.on("connect")
ListOnConnect ==
  /\ listMounted /\ listClient \in {"connecting", "offline"}
  /\ listClient' = "connected"
  /\ listSent' = ListConnectCalls
  /\ handled' = NothingHandled
  /\ UNCHANGED <<listItems, storage, prompts, selected, menuOpen, listMounted,
                 gwVars, mapVars>>

\* client.on("close"): logs
ListOnClose ==
  /\ listMounted /\ listClient \in {"connecting", "connected", "offline"}
  /\ listClient' = "offline"
  /\ listSent' = <<>>
  /\ handled' = NothingHandled
  /\ UNCHANGED <<listItems, storage, prompts, selected, menuOpen, listMounted,
                 gwVars, mapVars>>

\* client.on("message"); the effect on [items] saves the list it sets
ListOnMessage(m) ==
  /\ listMounted /\ listClient = "connected"
  /\ listSent' = <<>>
  /\ UNCHANGED <<selected, menuOpen, listClient, listMounted, gwVars, mapVars>>
  /\ handled' = (IF ListAccepts(m) /\ CmdField(m.body) \in {"status_update", "alert"}
                 THEN [cmd |-> CmdField(m.body), idx |-> ListNotifyId(m.body)]
                 ELSE NothingHandled)
  /\ IF ListAccepts(m) /\ CmdField(m.body) = "new_device"
        /\ ~\E i \in DOMAIN listItems : listItems[i].id = ListNotifyId(m.body)
     THEN /\ Len(prompts) + Len(listItems) < MaxItems
          /\ prompts' = Append(prompts, PromptOf(m.body))
          /\ UNCHANGED <<listItems, storage>>
     ELSE /\ listItems' = ItemsAfterMessage(listItems, m)
          /\ storage' = (IF ListAccepts(m) /\ CmdField(m.body) = "status_update"
                         THEN saveItems(listItems')
                         ELSE storage)
          /\ UNCHANGED prompts

\* the accept button of a new-device toast
AcceptPrompt(i) ==
  /\ listMounted /\ i \in DOMAIN prompts
  /\ listItems' = Append(listItems,
                         Item(prompts[i].id, Len(listItems) + 1, prompts[i].st,
                              prompts[i].battery))
  /\ storage' = saveItems(listItems')
  /\ prompts' = RemoveAt(prompts, i)
  /\ handled' = NothingHandled
  /\ listSent' = <<>>
  /\ UNCHANGED <<selected, menuOpen, listClient, listMounted, gwVars, mapVars>>

\* the close button of a new-device toast, or its expiry
DismissPrompt(i) ==
  /\ i \in DOMAIN prompts
  /\ prompts' = RemoveAt(prompts, i)
  /\ handled' = NothingHandled
  /\ listSent' = <<>>
  /\ UNCHANGED <<listItems, storage, selected, menuOpen, listClient, listMounted,
                 gwVars, mapVars>>

\* openMenu(item): a double tap on a row
openMenu(i) ==
  /\ listMounted /\ ~menuOpen /\ i \in DOMAIN SafeItems(listItems)
  /\ selected' = {SafeItems(listItems)[i].id}
  /\ menuOpen' = TRUE
  /\ handled' = NothingHandled
  /\ listSent' = <<>>
  /\ UNCHANGED <<listItems, storage, prompts, listClient, listMounted, gwVars, mapVars>>

\* the delete button of the context menu
handleDelete ==
  /\ listMounted /\ menuOpen /\ selected # {}
  /\ listItems' = SelectSeq(listItems, LAMBDA it : it.id \notin selected)
  /\ storage' = saveItems(listItems')
  /\ menuOpen' = FALSE
  /\ handled' = NothingHandled
  /\ listSent' = <<>>
  /\ UNCHANGED <<prompts, selected, listClient, listMounted, gwVars, mapVars>>

\* onDragEnd: the row with id active is dropped on the row with id over
onDragEnd(active, over) ==
  LET safe == SafeItems(listItems)
      oldIndex == FindIndex(safe, active)
      newIndex == FindIndex(safe, over)
  IN /\ listMounted /\ ~menuOpen
     /\ active # over /\ oldIndex # 0 /\ newIndex # 0
     /\ listItems' = arrayMove(safe, oldIndex, newIndex)
     /\ storage' = saveItems(listItems')
     /\ handled' = NothingHandled
     /\ listSent' = <<>>
     /\ UNCHANGED <<prompts, selected, menuOpen, listClient, listMounted, gwVars, mapVars>>

\* the list view mounts: it starts from what is stored and opens its client
ListMount ==
  /\ listItems' = loadItems(storage)
  /\ storage' = saveItems(listItems')
  /\ prompts' = <<>>
  /\ selected' = {}
  /\ menuOpen' = FALSE
  /\ listClient' = "connecting"
  /\ listSent' = <<>>
  /\ listMounted' = TRUE
  /\ handled' = NothingHandled

\* the page is loaded again
ListReload == ListMount /\ UNCHANGED <<gwVars, mapVars>>

\* the cleanup of the MQTT effect: client.end(true)
ListCleanup ==
  /\ listMounted' = FALSE
  /\ listClient' = "ended"
  /\ listSent' = <<>>
  /\ handled' = NothingHandled
  /\ UNCHANGED <<listItems, storage, prompts, selected, menuOpen>>

\* the list view unmounts
ListUnmount == listMounted /\ ListCleanup /\ UNCHANGED <<gwVars, mapVars>>

\* the first load: nothing is stored yet; the mount effect saves the empty list
ListInit ==
  /\ listItems = loadItems(NoStorage)
  /\ storage = saveItems(listItems)
  /\ prompts = <<>>
  /\ selected = {}
  /\ menuOpen = FALSE
  /\ listClient = "connecting"
  /\ listSent = <<>>
  /\ listMounted = TRUE
  /\ handled = NothingHandled

\* no list view, for the behaviours of the gateway and of the map view alone
ListIdle ==
  /\ listItems = <<>>
  /\ storage = NoStorage
  /\ prompts = <<>>
  /\ selected = {}
  /\ menuOpen = FALSE
  /\ listClient = "none"
  /\ listSent = <<>>
  /\ listMounted = FALSE
  /\ handled = NothingHandled

DoListMessage == \E m \in ListMessages : ListOnMessage(m)
DoAcceptPrompt == \E i \in DOMAIN prompts : AcceptPrompt(i)
DoDismissPrompt == \E i \in DOMAIN prompts : DismissPrompt(i)
DoOpenMenu == \E i \in DOMAIN listItems : openMenu(i)
DoDragEnd ==
  \E active \in Range(IdsOf(listItems)), over \in Range(IdsOf(listItems)) :
    onDragEnd(active, over)

ListNext ==
  \/ ListOnConnect
  \/ ListOnClose
  \/ DoListMessage
  \/ DoAcceptPrompt
  \/ DoDismissPrompt
  \/ DoOpenMenu
  \/ handleDelete
  \/ DoDragEnd
  \/ ListReload
  \/ ListUnmount

----------------------------------------------------------------------------
(* Specifications *)

\* the gateway serving any sequence of requests
GatewayInit == GwInit /\ MapIdle /\ ListIdle
SpecGateway == GatewayInit /\ [][GwNext]_vars

\* one map view, from mount to unmount, its CCTV overlay left closed
MapViewInit == MapInit /\ GwIdle /\ ListIdle
SpecMap == MapViewInit /\ [][MapNext]_vars

\* one map view with its CCTV overlay
SpecMapCctv == MapViewInit /\ [][MapNext \/ CctvNext]_vars

\* the steps of the history panel: selections, the panel opened and closed,
\* its requests settling; the timer provides the devices
LogsNext ==
  \/ OnTimer
  \/ DoMarkerClick
  \/ Deselect
  \/ OpenLogs
  \/ CloseLogs
  \/ DoLogsSettled
  \/ Unmount

\* one map view and its history panel
SpecLogs == MapViewInit /\ [][LogsNext]_vars

\* --- both views and the navigation between them ---

\* the ids the list view passes to the map view: safeItems.map((it) => it.id)
PassedIds(list) == {SafeItems(list)[i].id.val : i \in DOMAIN SafeItems(list)}

\* the map view mounts with the ids passed, as in MapInit; the requests in
\* flight and the toasts of an earlier view are still there
MapMount(idSet) ==
  /\ ids' = idSet
  /\ rawMap' = EmptyMap
  /\ alertedIds' = {}
  /\ connected' = FALSE
  /\ currentId' = {}
  /\ client' = (IF SessionOpens(idSet) THEN "connecting" ELSE "none")
  /\ didConnect' = FALSE
  /\ timerArmed' = SessionOpens(idSet)
  /\ mounted' = TRUE
  /\ live' = FALSE
  /\ cctvOpen' = FALSE
  /\ sent' = <<>>
  /\ staleClose' \in (IF SessionOpens(idSet) THEN BOOLEAN ELSE {FALSE})
  /\ showLogs' = FALSE /\ logs' = {} /\ logsLoading' = FALSE
  /\ UNCHANGED <<posts, toasts, logReqs>>

\* navigate("/p2", { state: { ids } }): the list view unmounts, the map view
\* mounts with the ids passed
NavigateToMap ==
  /\ listMounted /\ ~mounted
  /\ ListCleanup
  /\ MapMount(PassedIds(listItems))
  /\ UNCHANGED gwVars

\* back to "/": the map view unmounts, the list view mounts
NavigateToList ==
  /\ mounted /\ ~listMounted
  /\ MapCleanup
  /\ ListMount
  /\ UNCHANGED gwVars

\* the page is loaded again while it shows the list view
ReloadOnList == listMounted /\ ~mounted /\ ListReload

\* the lists a user may have stored when the application is opened
StoredLists ==
  {<<>>,
   <<Item(Num(1), 1, mapStatusP1("GOOD"), "80")>>,
   <<Item(Num(2), 1, mapStatusP1("GOOD"), "80"), Item(Num(1), 2, mapStatusP1("BAD"), "80")>>}

\* the application opened on the list view
AppInit ==
  /\ \E list \in StoredLists : storage = saveItems(list)
  /\ listItems = loadItems(storage)
  /\ prompts = <<>>
  /\ selected = {}
  /\ menuOpen = FALSE
  /\ listClient = "connecting"
  /\ listSent = <<>>
  /\ listMounted = TRUE
  /\ handled = NothingHandled
  /\ GwIdle /\ MapIdle

\* the steps that open, close or change the state of a broker session, and
\* the selection of a device on the map
AppNext ==
  \/ ListOnConnect
  \/ ListOnClose
  \/ NavigateToMap
  \/ NavigateToList
  \/ OnConnect
  \/ OnTimer
  \/ OnClose
  \/ OnStaleClose
  \/ OnCloseAfterEnd
  \/ OnError
  \/ DoMarkerClick
  \/ Deselect
  \/ ReloadOnList

\* the sessions of both views across navigation; the message handlers, which
\* leave the clients alone, are left to SpecMap and SpecList
SpecApp == AppInit /\ [][AppNext]_vars

\* one list view, reloaded any number of times
ListViewInit == ListInit /\ GwIdle /\ MapIdle
SpecList == ListViewInit /\ [][ListNext]_vars

----------------------------------------------------------------------------
(* Properties of the persistence gateway, checked under SpecGateway *)

\* recent_obj is absent or has at most two elements
Malformed(body) == "recent_obj" \notin DOMAIN body \/ Len(body.recent_obj) <= 2

\* C1: a save-alert request whose recent_obj is absent or has fewer than 3
\* elements is answered 400, leaves the stored rows as they were and sends no
\* statement to the store.
C1_MalformedSaveRejected ==
  [][(req'.op = "save" /\ Malformed(req'.body))
       => (res'.status = 400 /\ alerts' = alerts /\ lastQuery' = "none")]_vars

\* a request with a two-element recent_obj was rejected while rows were stored
C1_Witness ==
  /\ req.op = "save"
  /\ "recent_obj" \in DOMAIN req.body /\ Len(req.body.recent_obj) = 2
  /\ res.status = 400
  /\ alerts # EmptyBag

\* the last request was a successful read of the device whose alert the request
\* before it stored
ReadAfterSave ==
  /\ req.op = "get" /\ res.status = 200
  /\ prevSaved # NoRow
  /\ QueryDeviceId(req.query) = Num(prevSaved.device_id)

Listed(row, rows) ==
  \E i \in DOMAIN rows : i <= RecentLimit /\ rows[i] = row

\* the stored rows of the saved alert's device that differ from it and are not
\* older than it
Rivals(row) ==
  [r \in {x \in DOMAIN alerts :
            /\ x.device_id = row.device_id
            /\ x # row
            /\ x.event_time >= row.event_time} |-> alerts[r]]

\* C2 as stated: after a successful save, a read of the same device returns a
\* record matching the submission among its first 10.
C2_SavedAlertListed == ReadAfterSave => Listed(prevSaved, res.rows)

\* C2, amended: ... provided the store holds fewer than 10 other rows of that
\* device whose event time is not earlier than the submitted one.
C2_SavedAlertListedIfRecent ==
  (ReadAfterSave /\ BagSize(Rivals(prevSaved)) < RecentLimit)
    => Listed(prevSaved, res.rows)

\* the saved alert is returned last, behind nine later rows of its device
C2_Witness ==
  /\ ReadAfterSave
  /\ BagSize(Rivals(prevSaved)) = RecentLimit - 1
  /\ Len(res.rows) = RecentLimit
  /\ res.rows[RecentLimit] = prevSaved
  /\ res.rows[1].event_time > prevSaved.event_time

\* the rows of the requested device the response leaves out
Omitted(d, rows) ==
  {r \in DOMAIN OfDevice(alerts, d) : alerts[r] > Copies(BagOfSeq(rows), r)}

\* C3: a successful read returns at most 10 rows, all stored rows of the
\* requested device, in non-increasing event-time order, and leaves out no row
\* of that device that is later than a returned one.
C3_RecentAlertsNewestFirst ==
  (req.op = "get" /\ res.status = 200) =>
    LET d == QueryDeviceId(req.query).val
        rows == res.rows
    IN /\ Len(rows) <= 10
       /\ \A i \in DOMAIN rows : rows[i].device_id = d
       /\ \A r \in DOMAIN BagOfSeq(rows) : BagOfSeq(rows)[r] <= Copies(alerts, r)
       /\ \A i, j \in DOMAIN rows : i < j => rows[i].event_time >= rows[j].event_time
       /\ \A r \in Omitted(d, rows) : \A i \in DOMAIN rows :
            r.event_time <= rows[i].event_time

\* a read that returned 10 rows of two event times, left some out, while the
\* other device has rows too
C3_Witness ==
  /\ req.op = "get" /\ res.status = 200
  /\ Len(res.rows) = 10
  /\ res.rows[1].event_time > res.rows[10].event_time
  /\ Omitted(QueryDeviceId(req.query).val, res.rows) # {}
  /\ \E r \in DOMAIN alerts : r.device_id # QueryDeviceId(req.query).val

\* C4 as stated: a read whose device_id is missing, empty or not numeric is
\* answered 400 and sends no statement to the store.
C4_BadDeviceIdRejected ==
  (req.op = "get"
     /\ ("device_id" \notin DOMAIN req.query \/ req.query.device_id \in {"", "abc"}))
    => (res.status = 400 /\ lastQuery = "none")

\* C5: the store only grows: no step lowers the number of copies of a stored
\* row, and a read leaves the store as it was.
C5_AppendOnly ==
  [][/\ \A r \in DOMAIN alerts : Copies(alerts', r) >= alerts[r]
     /\ req'.op = "get" => alerts' = alerts]_vars

\* a read answered after two inserts, the first rows still there
C5_Witness ==
  /\ req.op = "get" /\ res.status = 200
  /\ nSaved = 2
  /\ BagSize(alerts) = PriorRows + 2

\* C6: a successful save adds exactly one copy of the submitted row and nothing
\* else, whether or not an equal row is already stored.
C6_SaveAppendsOneRow ==
  [][(req'.op = "save" /\ res'.status = 200) =>
       LET row == RowOfBody(req'.body)
       IN /\ Copies(alerts', row) = Copies(alerts, row) + 1
          /\ \A r \in (DOMAIN alerts \cup DOMAIN alerts') \ {row} :
               Copies(alerts', r) = Copies(alerts, r)]_vars

\* the same alert saved twice into an empty table is stored twice
C6_Witness ==
  /\ req.op = "save" /\ res.status = 200
  /\ nSaved = 2
  /\ alerts = [r \in {RowOfBody(req.body)} |-> 2]

----------------------------------------------------------------------------
(* Properties of the map view, checked under SpecMap *)

\* a Notify alert with a finite numeric device id and a detection tuple of at
\* least three elements
ValidAlert(m) ==
  /\ m.topic = NotifyTopic /\ m.json = "object"
  /\ "cmd" \in DOMAIN m.body /\ m.body.cmd = "alert"
  /\ IsFinite(NotifyId(m.body))
  /\ "recent_obj" \in DOMAIN m.body /\ Len(m.body.recent_obj) >= 3

\* a step in which the fetch of a save-alert request settles
Settles ==
  /\ Len(posts') = Len(posts)
  /\ \E i \in DOMAIN posts : posts[i].outcome = "pending" /\ posts'[i].outcome # "pending"

\* the valid alerts among the messages of the map view
ValidAlerts == {m \in Messages : ValidAlert(m)}

\* C7: handling a valid alert notification puts its device id in the alerted set
\* and emits one toast, and the later outcome of the save-alert request (success,
\* HTTP error, network failure) changes neither.
C7_AlertMarkedAndToasted ==
  [][/\ \A m \in ValidAlerts : (ValidAlert(m) /\ OnMessage(m)) =>
          /\ NotifyId(m.body).val \in alertedIds'
          /\ toasts' = Append(toasts, [target |-> m.body.recent_obj[2]])
     /\ Settles => (alertedIds' = alertedIds /\ toasts' = toasts)]_vars

\* the save-alert request of an alert failed; its device is marked, its toast shown
C7_Witness ==
  \E i \in DOMAIN posts :
    /\ posts[i].outcome \in {"http_error", "network_error"}
    /\ posts[i].body.id \in alertedIds
    /\ i \in DOMAIN toasts /\ toasts[i].target = posts[i].body.recent_obj[2]

\* C8: when the registry holds device d, handling Notify {cmd: "alert", id: d,
\* recent_obj: [t, o, i]} leaves d's most recent detection at (t, o, i), d in the
\* alerted set and one more save-alert request issued, carrying d and [t, o, i].
C8_AlertReconciled ==
  [][\A m \in ValidAlerts :
       (/\ ValidAlert(m) /\ "id" \in DOMAIN m.body /\ "num" \in DOMAIN m.body.id
        /\ Len(m.body.recent_obj) = 3
        /\ StringOfNumber(m.body.id.num) \in DOMAIN rawMap
        /\ OnMessage(m))
       => LET d == m.body.id.num
              key == StringOfNumber(d)
          IN /\ key \in DOMAIN rawMap'
             /\ "recent_obj" \in DOMAIN rawMap'[key]
             /\ rawMap'[key].recent_obj = m.body.recent_obj
             /\ ProjectRecent(rawMap'[key]) =
                  [time |-> m.body.recent_obj[1], target |-> m.body.recent_obj[2],
                   image |-> m.body.recent_obj[3]]
             /\ d \in alertedIds'
             /\ Len(posts') = Len(posts) + 1
             /\ posts'[Len(posts')].body.id = d
             /\ posts'[Len(posts')].body.recent_obj = m.body.recent_obj]_vars

\* an alert for a device of the live registry was reconciled
C8_Witness ==
  \E i \in DOMAIN posts :
    LET key == StringOfNumber(posts[i].body.id) IN
    /\ didConnect
    /\ key \in DOMAIN rawMap
    /\ "recent_obj" \in DOMAIN rawMap[key]
    /\ rawMap[key].recent_obj = posts[i].body.recent_obj
    /\ posts[i].body.id \in alertedIds

\* the registry keys in the user list whose coordinates are finite numbers
ListedWithPosition ==
  {NumberOfString(k).val : k \in
     {x \in DOMAIN rawMap :
        /\ IsFinite(NumberOfString(x)) /\ NumberOfString(x).val \in ids
        /\ IsFinite(LatOf(rawMap[x])) /\ IsFinite(LngOf(rawMap[x]))}}

C10_TimeoutSeedsFallback ==
  [][(timerArmed /\ ~timerArmed' /\ mounted' /\ ~didConnect')
       => rawMap' = FALLBACK_RAW]_vars

\* the timer fired while the client was still on its first connection attempt
C10_Witness ==
  /\ mounted /\ client = "connecting" /\ ~timerArmed /\ ~didConnect
  /\ rawMap = FALLBACK_RAW

----------------------------------------------------------------------------
(* Properties of the broker session of the map view, checked under SpecMap *)

\* the registry holds data received in a snapshot
HoldsLiveData == live /\ DOMAIN rawMap # {}

\* C11: a registry that holds live data is never replaced by the fallback
\* dataset: whatever happens next while the view stays mounted (timer, close of
\* this or of an earlier session, error, reconnect, message), the registry is
\* not the fallback dataset afterwards and still stems from a snapshot.
C11_LiveRegistryNotDowngraded ==
  [][(HoldsLiveData /\ mounted') => (rawMap' # FALLBACK_RAW /\ live')]_vars

\* the connection dropped while the registry held live data
C11_Witness == HoldsLiveData /\ didConnect /\ client = "offline" /\ ~connected

\* a Response message whose payload parses to an object
IsSnapshot(m) == m.json = "object" /\ IsResponseTopic(m.topic)

\* the snapshots among the messages of the map view
SnapshotMessages == {m \in Messages : IsSnapshot(m)}

\* C13: handling a snapshot S leaves the registry equal to S, entries absent
\* from S gone, and handling S once more leaves it equal to S.
C13_SnapshotReplace ==
  [][\A m \in SnapshotMessages :
       (IsSnapshot(m) /\ OnMessage(m))
         => /\ rawMap' = m.body
            /\ RawMapAfterMessage(rawMap', m) = m.body]_vars

\* device 2 was selected as an item, and a later snapshot holds device 1 only
C13_Witness == live /\ currentId = {2} /\ rawMap = ("1" :> DevA)

\* the handler that ran last published a CONTROL command
ControlSent ==
  \E i \in DOMAIN sent : sent[i].call = "publish" /\ sent[i].topic[1] = "CONTROL"

\* C14: a CONTROL pan command is published only while the session is connected
\* and a device is selected.
C14_ControlOnlyWhenConnected == ControlSent => (client = "connected" /\ currentId # {})

\* a step taken by a torn-down session: the close event of the session that
\* was cleaned up at mount, or any step after the view's cleanup
AfterTeardown == (staleClose /\ ~staleClose') \/ ~mounted

\* C15: once the teardown of a session has begun, its timer is not pending and
\* no event of it changes the registry or the alerted set, or issues a
\* save-alert request or a toast.
C15_NoEventAfterTeardown ==
  [][AfterTeardown =>
       /\ ~timerArmed \/ mounted
       /\ rawMap' = rawMap /\ alertedIds' = alertedIds
       /\ Len(posts') = Len(posts) /\ toasts' = toasts]_vars

\* a step that seeds the registry with the fallback dataset
SeedsFallback == rawMap' = FALLBACK_RAW /\ rawMap # FALLBACK_RAW

\* C18: once the session has connected, none of its later events (timer, close,
\* error, reconnect, message) seeds the registry with the fallback dataset,
\* even when the registry is empty.
C18_NoFallbackAfterConnect ==
  [][(didConnect /\ staleClose' = staleClose) => ~SeedsFallback]_vars

\* the connection dropped after a connect, with the registry empty
C18_Witness ==
  /\ mounted /\ didConnect /\ client = "offline" /\ ~timerArmed
  /\ DOMAIN rawMap = {} /\ ~staleClose

----------------------------------------------------------------------------
(* Properties of the list view, checked under SpecList *)

\* a status update, as either view receives it
IsStatusUpdate(m) ==
  m.json = "object" /\ IsNotifyTopic(m.topic) /\ CmdField(m.body) = "status_update"

\* registries of the map view that lack some of the devices 1, 2, 7
SomeRegistries == {EmptyMap, "1" :> DevA, FALLBACK_RAW}

\* the status updates either view may receive
StatusUpdates ==
  {Msg(NotifyTopic, "object", b) :
     b \in {x \in NotifyBodies \cup ListNotifyBodies : x.cmd = "status_update"}}

\* C12: a status update that names an id absent from the registry changes
\* nothing and creates no entry: in the list view the list and what is stored
\* stay as they are, in the map view the registry does.
C12_StatusUpdateUnknownId ==
  [][/\ \A m \in StatusUpdates :
          (/\ IsStatusUpdate(m)
           /\ ~\E i \in DOMAIN listItems : listItems[i].id = ListNotifyId(m.body)
           /\ ListOnMessage(m))
            => (listItems' = listItems /\ storage' = storage)
     /\ \A m \in StatusUpdates, prev \in SomeRegistries :
          (/\ IsStatusUpdate(m)
           /\ ~\E k \in DOMAIN prev : NumberOfString(k) = NotifyId(m.body))
            => RawMapAfterMessage(prev, m) = prev]_vars

\* the list view has just handled a status update for device 7, which its
\* non-empty list does not hold
C12_Witness ==
  /\ handled = [cmd |-> "status_update", idx |-> Num(7)]
  /\ listItems # <<>>
  /\ \A i \in DOMAIN listItems : listItems[i].id # Num(7)

\* C16: no two entries of the device list have the same id.
C16_UniqueIds ==
  \A i, k \in DOMAIN listItems : i # k => listItems[i].id # listItems[k].id

\* C17: what is stored is the list in memory; a reload restores the same
\* sequence of ids, and the map view reads the same ids from storage.
C17_StoredListRestores ==
  /\ storage.present
  /\ IdsOf(loadItems(storage)) = IdsOf(listItems)
  /\ Range(loadIdsFromStorage(storage)) = Range(IdsOf(listItems))

\* C20: whenever the session of the list view enters Connected, its handler
\* subscribes and then publishes GET/device.
C20_ListConnectRequestsDevices ==
  [][(listClient # "connected" /\ listClient' = "connected")
       => (/\ Len(listSent') = 2
           /\ listSent'[1].call = "subscribe"
           /\ listSent'[2] = GetDeviceCall)]_vars

----------------------------------------------------------------------------
(* Properties of the alert pipeline of the map view, checked under SpecMap *)

\* the alert notifications among the messages of the map view
AlertMessages ==
  {m \in Messages : m.topic = NotifyTopic /\ m.json = "object" /\ CmdField(m.body) = "alert"}

\* the id field of a payload (id, else idx) holds a finite number: a JSON
\* number, or a string that spells one
NamesFiniteId(body) ==
  LET given == IF "id" \in DOMAIN body THEN {body.id}
               ELSE IF "idx" \in DOMAIN body THEN {body.idx} ELSE {}
  IN \E v \in given :
       \/ "num" \in DOMAIN v
       \/ "str" \in DOMAIN v /\ v.str \notin {"", " "} /\ IsFinite(NumberOfString(v.str))

\* the payload holds a detection tuple of at least three elements
HasTuple(body) == "recent_obj" \in DOMAIN body /\ Len(body.recent_obj) >= 3

\* C21: an alert notification without a finite numeric device id or without a
\* detection tuple of at least 3 elements is discarded: registry, alerted set,
\* save-alert requests and toasts stay as they are.
C21_InvalidAlertDiscarded ==
  [][\A m \in AlertMessages :
       ((~NamesFiniteId(m.body) \/ ~HasTuple(m.body)) /\ OnMessage(m))
         => (/\ rawMap' = rawMap /\ alertedIds' = alertedIds
             /\ posts' = posts /\ toasts' = toasts)]_vars

\* C22: a valid alert changes nothing in the registry except the most recent
\* detection of the device it names: the other fields of that record and the
\* records of the other devices stay, and when the device is not in the
\* registry the registry stays as it is, without a new entry.
C22_AlertTouchesOnlyRecent ==
  [][\A m \in ValidAlerts :
       (ValidAlert(m) /\ OnMessage(m))
         => LET key == StringOfNumber(NotifyId(m.body).val) IN
            /\ DOMAIN rawMap' = DOMAIN rawMap
            /\ \A k \in DOMAIN rawMap \ {key} : rawMap'[k] = rawMap[k]
            /\ key \in DOMAIN rawMap =>
                 /\ DOMAIN rawMap'[key] = DOMAIN rawMap[key] \cup {"recent_obj"}
                 /\ \A f \in DOMAIN rawMap[key] \ {"recent_obj"} :
                      rawMap'[key][f] = rawMap[key][f]
            /\ key \notin DOMAIN rawMap => rawMap' = rawMap]_vars

\* an alert for one device of a live registry of several devices was handled:
\* that device holds the detection, the others hold none
C22_Witness ==
  /\ live /\ Cardinality(DOMAIN rawMap) >= 2
  /\ \E i \in DOMAIN posts :
       LET key == StringOfNumber(posts[i].body.id) IN
       /\ key \in DOMAIN rawMap
       /\ "recent_obj" \in DOMAIN rawMap[key]
       /\ \A k \in DOMAIN rawMap \ {key} : "recent_obj" \notin DOMAIN rawMap[k]

C24_OneSaveRequestPerAlert ==
  [][/\ \A m \in ValidAlerts :
          (ValidAlert(m) /\ OnMessage(m))
            => LET numId == NotifyId(m.body).val
                   key == StringOfNumber(numId)
               IN /\ Len(posts') = Len(posts) + 1
                  /\ SubSeq(posts', 1, Len(posts)) = posts
                  /\ posts'[Len(posts')].outcome = "pending"
                  /\ posts'[Len(posts')].body.id = numId
                  /\ numId \in alertedIds'
                  /\ Len(toasts') = Len(toasts) + 1
                  /\ key \in DOMAIN rawMap =>
                       /\ "recent_obj" \in DOMAIN rawMap'[key]
                       /\ rawMap'[key].recent_obj = RecentArr(m.body)
     /\ Len(posts') # Len(posts) => \E m \in ValidAlerts : OnMessage(m)
     /\ \A i \in DOMAIN posts :
          i \in DOMAIN posts' /\ posts'[i].body = posts[i].body]_vars

\* the one request of an alert failed on the network and the session went on:
\* there is still one request, one toast
C24_Witness ==
  /\ Len(posts) = 1 /\ posts[1].outcome = "network_error"
  /\ Len(toasts) = 1 /\ client = "offline"

----------------------------------------------------------------------------
(* Properties of the CCTV overlay, checked under SpecMapCctv *)

\* C25: with a connected session and a selected device, every pan gesture
\* publishes one CONTROL message of its own, addressed to the selected device:
\* a start gesture carries its direction, a stop gesture carries "stop"; the
\* handler publishes before it returns, so the messages leave in the order of
\* the gestures.
C25_EveryGesturePublished ==
  [][\A dir \in {"left", "right"}, state \in {"start", "stop"} :
       (client = "connected" /\ currentId # {} /\ PublishPTZ(dir, state))
         => \E id \in currentId :
              /\ Len(sent') = 1
              /\ sent'[1].call = "publish"
              /\ sent'[1].topic = <<"CONTROL", "device", StringOfNumber(id)>>
              /\ sent'[1].id = id
              /\ sent'[1].commend = (IF state = "start" THEN dir ELSE "stop")]_vars

\* a stop gesture has just been published for device 2 on a connected session
C25_Witness ==
  /\ client = "connected" /\ currentId = {2} /\ cctvOpen
  /\ Len(sent) = 1 /\ sent[1].call = "publish" /\ sent[1].commend = "stop"
  /\ sent[1].id = 2

----------------------------------------------------------------------------
(* Properties of status updates and malformed payloads *)

\* the status updates among the messages of the map view
MapStatusUpdates == {m \in Messages : IsStatusUpdate(m)}

\* C26: in the map view, a status update for a device of the registry sets
\* that device's status, and its battery when the message gives one, to the
\* values of the message.
C26_MapStatusUpdateApplied ==
  [][\A m \in MapStatusUpdates :
       LET key == StringOfNumber(NotifyId(m.body).val) IN
       (/\ IsFinite(NotifyId(m.body)) /\ key \in DOMAIN rawMap
        /\ "status" \in DOMAIN m.body
        /\ OnMessage(m))
         => /\ key \in DOMAIN rawMap'
            /\ rawMap'[key].status = m.body.status
            /\ "battery" \in DOMAIN m.body => rawMap'[key].battery = m.body.battery]_vars

\* the status words a notification may carry
StatusWords == {"GOOD", "BAD", "OFF"}

\* C27: in the list view, a status update for a device of the list sets that
\* entry's status and battery to the values of the message and nothing else:
\* ids, names, order and length of the list and the other entries stay.
C27_ListStatusUpdateFrame ==
  [][\A m \in StatusUpdates :
       (/\ IsStatusUpdate(m) /\ StatusField(m.body) \in StatusWords
        /\ \E i \in DOMAIN listItems : listItems[i].id = ListNotifyId(m.body)
        /\ ListOnMessage(m))
         => /\ Len(listItems') = Len(listItems)
            /\ \A i \in DOMAIN listItems :
                 IF listItems[i].id = ListNotifyId(m.body)
                 THEN /\ listItems'[i].id = listItems[i].id
                      /\ listItems'[i].name = listItems[i].name
                      /\ listItems'[i].status = mapStatusP1(m.body.status).status
                      /\ "battery" \in DOMAIN m.body =>
                           listItems'[i].battery = m.body.battery
                 ELSE listItems'[i] = listItems[i]]_vars

\* a malformed payload: text that JSON.parse rejects, or a payload on a
\* snapshot topic that is not a JSON object (a scalar, an array)
MalformedMapMessages ==
  {m \in Messages : m.json = "garbage" \/ (IsResponseTopic(m.topic) /\ m.json # "object")}
MalformedListMessages == {m \in ListMessages : m.json # "object"}

\* C28: a malformed payload changes neither the registry nor the alerted set
\* of the map view nor the device list of the list view, and leaves the session
\* as it is, so that later messages are handled.
C28_MalformedPayloadIgnored ==
  [][/\ \A m \in MalformedMapMessages :
          OnMessage(m) => (/\ rawMap' = rawMap /\ alertedIds' = alertedIds
                           /\ client' = client /\ mounted')
     /\ \A m \in MalformedListMessages :
          ListOnMessage(m) => (/\ listItems' = listItems /\ storage' = storage
                               /\ listClient' = listClient /\ listMounted')]_vars

\* the Notify payloads of the list view that parse to an object
ListNotifies == {m \in ListMessages : m.topic = NotifyTopic /\ m.json = "object"}

\* C29: in the list view, a status update or new-device notification whose
\* status is missing or is none of GOOD, BAD, OFF is dropped: the list stays as
\* it is and no prompt is created.
C29_BadStatusDropped ==
  [][\A m \in ListNotifies :
       (/\ CmdField(m.body) \in {"status_update", "new_device"}
        /\ StatusField(m.body) \notin StatusWords
        /\ ListOnMessage(m))
         => (listItems' = listItems /\ prompts' = prompts)]_vars

\* C30: in the list view, an alert naming a device that is not in the list
\* starts the new-device flow: a prompt for that device is put up.
C30_AlertForUnknownPrompts ==
  [][\A m \in ListNotifies :
       (/\ CmdField(m.body) = "alert" /\ ListAccepts(m)
        /\ ~\E i \in DOMAIN listItems : listItems[i].id = ListNotifyId(m.body)
        /\ ListOnMessage(m))
         => (/\ Len(prompts') = Len(prompts) + 1
             /\ prompts'[Len(prompts')].id = ListNotifyId(m.body))]_vars

----------------------------------------------------------------------------
(* Properties of the membership of the User Device List, checked under SpecList *)

\* the ids of the entries of a list
Members(list) == {list[i].id : i \in DOMAIN list}

\* C31: an id enters the list only in the step in which the user accepts a
\* prompt for that id, and leaves it only in the step in which the user
\* deletes it; no other step changes the membership.
C31_MembershipByUserOnly ==
  [][/\ \A id \in Members(listItems') \ Members(listItems) :
          \E i \in DOMAIN prompts : prompts[i].id = id /\ AcceptPrompt(i)
     /\ \A id \in Members(listItems) \ Members(listItems') :
          handleDelete /\ id \in selected]_vars

----------------------------------------------------------------------------
(* Properties of the broker sessions across navigation, checked under SpecApp *)

\* a client that was opened and not yet ended by its cleanup
SessionOpen(c) == c \in {"connecting", "connected", "offline"}

\* C32: the sessions of the list view and of the map view are never open at
\* the same time, an open session belongs to a mounted view, and a mounted
\* view has its session open (the map view when its user list is not empty).
C32_OneSessionOwnedByView ==
  /\ ~(SessionOpen(client) /\ SessionOpen(listClient))
  /\ SessionOpen(client) => mounted
  /\ SessionOpen(listClient) => listMounted
  /\ listMounted => SessionOpen(listClient)
  /\ (mounted /\ ids # {}) => SessionOpen(client)

\* back on the list view after a visit of the map view: the list session is
\* connected, the session of the map view was ended
C32_Witness ==
  /\ listMounted /\ listClient = "connected"
  /\ ~mounted /\ client \in {"ended", "closed"} /\ didConnect

----------------------------------------------------------------------------
(* Properties that relate the two views *)

\* C33: the id the list view acts on when it handles a notification (the id
\* of the prompt it puts up, of the status update or of the alert it handles)
\* is the id the map view resolves from the same payload.
C33_SameIdInBothViews ==
  [][\A m \in ListNotifies :
       (ListAccepts(m) /\ ListOnMessage(m))
         => /\ handled'.cmd # "none" => handled'.idx = NotifyId(m.body)
            /\ Len(prompts') > Len(prompts) =>
                 prompts'[Len(prompts')].id = NotifyId(m.body)]_vars

----------------------------------------------------------------------------
(* Properties of the history panel, checked under SpecLogs *)

\* C34: whenever the history panel is open and not loading, no request is in
\* flight and the rows shown are those of the selected device.
C34_LogsOfSelectedDevice ==
  (mounted /\ showLogs /\ ~logsLoading)
    => (logReqs = <<>> /\ logs \subseteq currentId)

----------------------------------------------------------------------------
(* Properties of the CCTV overlay after registry changes, checked under
   SpecMapCctv *)

\* C35: whenever a pan gesture publishes a CONTROL command, the device the
\* command targets is one of the items the map shows.
C35_ControlTargetsVisibleItem ==
  [][\A dir \in {"left", "right"}, state \in {"start", "stop"} :
       (PublishPTZ(dir, state) /\ sent' # <<>>) => currentId \subseteq ItemIds]_vars

----------------------------------------------------------------------------
(* Properties of the alert marks against the visible items, checked under
   SpecMap *)

\* C36: every alerted id is the id of an item the map shows, so that a marker
\* exists whose selection clears the mark.
C36_AlertedIdsHaveMarker == mounted => alertedIds \subseteq ItemIds

----------------------------------------------------------------------------
(* Properties of alerts in the list view, checked under SpecList *)

\* C37: in the list view, handling an alert notification leaves the device
\* list and its stored copy as they are and issues no request: no call on the
\* client and no save-alert request.
C37_ListAlertOnlyNotifies ==
  [][\A m \in ListNotifies :
       (CmdField(m.body) = "alert" /\ ListOnMessage(m))
         => /\ listItems' = listItems /\ storage' = storage
            /\ posts' = posts /\ listSent' = <<>>]_vars

\* an alert naming a device of the list was handled
C37_Witness ==
  /\ handled.cmd = "alert" /\ handled.idx \in Members(listItems)
  /\ listMounted /\ listClient = "connected"

----------------------------------------------------------------------------
(* Properties of the map view opened with an empty list, checked under SpecApp *)

\* C38: while the map view is open with an empty User Device List, no broker
\* session is open and no timeout timer is armed, the registry is empty (the
\* fallback dataset is not seeded) and the map shows no item.
C38_EmptyListOpensNothing ==
  (mounted /\ ids = {})
    => /\ client = "none" /\ ~timerArmed /\ ~connected /\ sent = <<>>
       /\ rawMap = EmptyMap /\ items = <<>>

\* the map view was opened from the list view with an empty list
C38_Witness ==
  /\ mounted /\ ids = {} /\ rawMap = EmptyMap
  /\ ~listMounted /\ listClient = "ended"

====
